---- MODULE Spec2Model ----
(***************************************************************************)
(* Model of the third-party dependency tracker: the repotracker package    *)
(* (NewCommits, NewGitRepo, ensureCacheDir, updateCache, CheckUpdate,      *)
(* CommitLog), the resolution of dependency records to git coordinates,    *)
(* and main's sequential loop, producer goroutine and worker pool.         *)
(***************************************************************************)
EXTENDS Integers, Sequences, FiniteSets, TLC

\* ------------------------------------------------------------------------
\* Bounds of the model
\* ------------------------------------------------------------------------
\* largest value of the -concurrency flag explored (0 .. MaxWorkers)
MaxWorkers == 2
\* longest list of dependency records explored
MaxDeps == 2
\* longest list of candidate URLs of an archive record explored
MaxURLs == 3
\* most lines of `git log` output explored
MaxLines == 2

\* Go's nil (no error, no commit, no value): the empty sequence
Nil == <<>>

\* ------------------------------------------------------------------------
\* Strings are sequences of one-character strings
\* ------------------------------------------------------------------------
\* \w of Go's regexp: [0-9A-Za-z_], over the alphabet used here
WordChars ==
    {"a", "b", "c", "d", "e", "g", "h", "i", "k", "l", "m", "n", "o", "p",
     "r", "t", "u", "v", "x", "z", "0", "1", "2", "H", "E", "A", "D", "_"}

IsWordChar(ch) == ch \in WordChars

\* strings.TrimPrefix
TrimPrefix(s, p) ==
    IF Len(s) >= Len(p) /\ SubSeq(s, 1, Len(p)) = p
    THEN SubSeq(s, Len(p) + 1, Len(s))
    ELSE s

\* strings.TrimSuffix
TrimSuffix(s, p) ==
    IF Len(s) >= Len(p) /\ SubSeq(s, Len(s) - Len(p) + 1, Len(s)) = p
    THEN SubSeq(s, 1, Len(s) - Len(p))
    ELSE s

\* pathUnsafeRE.ReplaceAllString(s, "_") with pathUnsafeRE = [^\w]+ :
\* every maximal run of non-word characters becomes one "_"
RECURSIVE ReplaceUnsafe(_)
ReplaceUnsafe(s) ==
    IF s = <<>> THEN <<>>
    ELSE IF IsWordChar(Head(s)) THEN <<Head(s)>> \o ReplaceUnsafe(Tail(s))
    ELSE IF Len(s) >= 2 /\ ~IsWordChar(s[2]) THEN ReplaceUnsafe(Tail(s))
    ELSE <<"_">> \o ReplaceUnsafe(Tail(s))

\* the remote URLs of the model, as url.Parse splits them (scheme https)
GithubHost == <<"g", "i", "t", "h", "u", "b", ".", "c", "o", "m">>
UrlA == [Host |-> GithubHost, Path |-> <<"/", "a", "/", "b">>]
UrlB == [Host |-> GithubHost, Path |-> <<"/", "a", "/", "c">>]
URLs == {UrlA, UrlB}

\* ensureCacheDir: the directory under cacheDir a URL is mirrored in,
\* filepath.Join(cacheDir, hostName, repoName) as the pair of its components
ensureCacheDir(u) ==
    LET hostName == ReplaceUnsafe(u.Host)
        repoName == ReplaceUnsafe(TrimSuffix(TrimPrefix(u.Path, <<"/">>),
                                             <<".", "g", "i", "t">>))
    IN  <<hostName, repoName>>

Dirs == {ensureCacheDir(u) : u \in URLs}

\* ------------------------------------------------------------------------
\* Commit graphs and the git queries on them
\* ------------------------------------------------------------------------
\* revisions are strings too: the commits of the model, the ref HEAD and a
\* revision that names no commit
C0 == <<"c", "0">>
C1 == <<"c", "1">>
C2 == <<"c", "2">>
CX == <<"c", "x">>
HEAD == <<"H", "E", "A", "D">>
GoneRev == <<"g", "o", "n", "e">>
Commits == {C0, C1, C2, CX}
Revisions == Commits \cup {GoneRev}

\* the history every remote of the model serves:
\*   c0 <- c1 <- c2 = HEAD,   c0 <- cx (a branch that is not merged)
RemoteGraph ==
    [parent |-> [c \in Commits |->
                    CASE c = C0 -> Nil
                      [] c = C1 -> C0
                      [] c = C2 -> C1
                      [] c = CX -> C0],
     head |-> C2]

\* the commits reachable from c by parent links, c included
RECURSIVE AncestorsOf(_, _)
AncestorsOf(g, c) ==
    IF c = Nil THEN {} ELSE {c} \cup AncestorsOf(g, g.parent[c])

\* git rev-parse of a revision argument: "HEAD" is the mirror's head
ResolveRev(g, rev) ==
    IF rev = HEAD THEN g.head
    ELSE IF rev \in DOMAIN g.parent THEN rev
    ELSE Nil

\* exit status of `git merge-base --is-ancestor from to`:
\* 0 when from is an ancestor of to (a commit is an ancestor of itself),
\* 1 when it is not, 128 when a revision does not name a commit
MergeBaseIsAncestor(g, from, to) ==
    LET f == ResolveRev(g, from)
        t == ResolveRev(g, to)
    IN  IF f = Nil \/ t = Nil THEN 128
        ELSE IF f \in AncestorsOf(g, t) THEN 0
        ELSE 1

\* runGit: a non-zero exit is an error whose text carries the arguments and
\* the exit status; exit 0 is no error
runGit(cmd, status) ==
    IF status # 0 THEN <<cmd, status>> ELSE Nil

\* CheckUpdate with a slip: a failed merge-base is taken for "no update"
CheckUpdate_ErrorSwallowed(g, fromCommit, toCommit) ==
    LET err == runGit("merge-base", MergeBaseIsAncestor(g, fromCommit, toCommit))
    IN  [hasUpdate |-> err = Nil, err |-> Nil]

\* CheckUpdate: (hasUpdate, err)
CheckUpdate(g, fromCommit, toCommit) ==
    LET err == runGit("merge-base", MergeBaseIsAncestor(g, fromCommit, toCommit))
    IN  IF err # Nil
        THEN [hasUpdate |-> FALSE, err |-> err]
        ELSE [hasUpdate |-> TRUE, err |-> Nil]

\* ------------------------------------------------------------------------
\* Dependency records and their resolution to git coordinates
\* ------------------------------------------------------------------------
\* gitPackageInfo
gitPackageInfo(url, rev) == [URL |-> url, Revision |-> rev]

\* a path segment of an archive URL: its text is stem \o ext, where ext is
\* the archive suffix the text ends with ("" when it ends with none)
TarGz == <<".", "t", "a", "r", ".", "g", "z">>
Zip == <<".", "z", "i", "p">>
ArchiveExts == {TarGz, Zip}
Seg(stem, ext) == [stem |-> stem, ext |-> ext]
SegText(sg) == sg.stem \o sg.ext

\* the tail of githubRE after (?:archive|releases/download)/ :
\*   ([^/]+)(?:\.(?:tar\.gz|zip)|/[^/]+)$
\* on the remaining segments; the revision group, or Nil without a match
githubRETail(rest) ==
    IF Len(rest) = 1 /\ rest[1].ext \in ArchiveExts /\ rest[1].stem # <<>>
    THEN rest[1].stem
    ELSE IF Len(rest) = 2 THEN SegText(rest[1])
    ELSE Nil

\* githubRE.FindStringSubmatch on a path given by its segments:
\*   ^/([^/]+)/([^/]+)/(?:archive|releases/download)/([^/]+)(?:...)$
\* the groups <<owner, repo, revision>>, or Nil without a match
githubRE(segs) ==
    LET n == Len(segs)
        rest == IF n >= 4 /\ SegText(segs[3]) = <<"a", "r", "c", "h", "i", "v", "e">>
                THEN SubSeq(segs, 4, n)
                ELSE IF n >= 5
                        /\ SegText(segs[3]) = <<"r", "e", "l", "e", "a", "s", "e", "s">>
                        /\ SegText(segs[4]) = <<"d", "o", "w", "n", "l", "o", "a", "d">>
                THEN SubSeq(segs, 5, n)
                ELSE <<>>
        rev == githubRETail(rest)
    IN  IF rev = Nil THEN Nil
        ELSE <<SegText(segs[1]), SegText(segs[2]), rev>>

CodeloadHost == <<"c", "o", "d", "e", "l", "o", "a", "d", ".">> \o GithubHost

\* the value both entries of httpGitMapper hold: match githubRE on the path
\* and build https://github.com/<m[1]>/<m[2]> at revision m[3]
githubMapper(u) ==
    LET m == githubRE(u.Segs)
    IN  IF m = Nil THEN Nil
        ELSE gitPackageInfo(
                 [Host |-> GithubHost, Path |-> <<"/">> \o m[1] \o <<"/">> \o m[2]],
                 m[3])

\* the keys of httpGitMapper
httpGitMapperHosts == {GithubHost, CodeloadHost}

\* HTTPToGit with a slip: `return` where the loop has `continue`, so the
\* first candidate decides
HTTPToGit_NoContinue(urls) ==
    IF urls = <<>> THEN Nil
    ELSE LET e == Head(urls)
         IN  IF e.parses /\ e.Host \in httpGitMapperHosts
             THEN githubMapper(e)
             ELSE Nil

\* HTTPToGit: the coordinate of the first candidate URL that parses, has a
\* mapped host and matches; Nil (with the error "no valid url") when none does
RECURSIVE HTTPToGit(_)
HTTPToGit(urls) ==
    IF urls = <<>> THEN Nil
    ELSE LET e == Head(urls)
             g == IF e.parses /\ e.Host \in httpGitMapperHosts
                  THEN githubMapper(e)
                  ELSE Nil
         IN  IF g # Nil THEN g ELSE HTTPToGit(Tail(urls))

\* what vcs.RepoRootForImportPath answers for an import path when the
\* network lets it answer
ImportA == <<"a", "/", "b">>
ImportHg == <<"h", "g">>
RepoRootForImportPath(importPath) ==
    IF importPath = ImportA THEN [Cmd |-> "git", Repo |-> UrlA]
    ELSE [Cmd |-> "hg", Repo |-> UrlB]

\* goPackageInfo.Git (GoToGit): netOk says whether the lookup succeeded
GoToGit(g, netOk) ==
    IF ~netOk THEN Nil
    ELSE LET rr == RepoRootForImportPath(g.ImportPath)
         IN  IF rr.Cmd # "git" THEN Nil
             ELSE gitPackageInfo(rr.Repo, g.Revision)

\* candidate URLs of the archive records
CandUnparsed == [parses |-> FALSE, Host |-> <<>>, Segs |-> <<>>]
\* https://x.org/a/c.tar.gz
CandNoHost ==
    [parses |-> TRUE, Host |-> <<"x", ".", "o", "r", "g">>,
     Segs |-> <<Seg(<<"a">>, <<>>), Seg(<<"c">>, TarGz)>>]
\* https://github.com/a/c/archive/cx.tar.gz
CandArchive ==
    [parses |-> TRUE, Host |-> GithubHost,
     Segs |-> <<Seg(<<"a">>, <<>>), Seg(<<"c">>, <<>>),
                Seg(<<"a", "r", "c", "h", "i", "v", "e">>, <<>>), Seg(CX, TarGz)>>]

\* https://codeload.github.com/a/c/tar.gz/cx
CandCodeload ==
    [parses |-> TRUE, Host |-> CodeloadHost,
     Segs |-> <<Seg(<<"a">>, <<>>), Seg(<<"c">>, <<>>),
                Seg(<<"t", "a", "r", ".", "g", "z">>, <<>>), Seg(CX, <<>>)>>]
\* https://github.com/a/c
CandNoMatch ==
    [parses |-> TRUE, Host |-> GithubHost,
     Segs |-> <<Seg(<<"a">>, <<>>), Seg(<<"c">>, <<>>)>>]
\* https://github.com/a/b/releases/download/c1/b.tar.gz
CandRelease ==
    [parses |-> TRUE, Host |-> GithubHost,
     Segs |-> <<Seg(<<"a">>, <<>>), Seg(<<"b">>, <<>>),
                Seg(<<"r", "e", "l", "e", "a", "s", "e", "s">>, <<>>),
                Seg(<<"d", "o", "w", "n", "l", "o", "a", "d">>, <<>>),
                Seg(C1, <<>>), Seg(<<"b">>, TarGz)>>]
\* https://codeload.github.com/a/b/archive/c2.zip
CandCodeloadArchive ==
    [parses |-> TRUE, Host |-> CodeloadHost,
     Segs |-> <<Seg(<<"a">>, <<>>), Seg(<<"b">>, <<>>),
                Seg(<<"a", "r", "c", "h", "i", "v", "e">>, <<>>), Seg(C2, Zip)>>]

\* the candidate URLs an archive record's list is drawn from
Candidates ==
    {CandUnparsed, CandNoHost, CandArchive, CandCodeload, CandNoMatch,
     CandRelease, CandCodeloadArchive}

\* the lists of at most n candidate URLs
CandidateLists(n) == UNION {[1..k -> Candidates] : k \in 0..n}

\* the dependency records a loaded list is drawn from: the two remotes, each
\* named by two records, pinned behind HEAD (c1), at HEAD (c2), on a branch
\* that is not merged (cx) and at a revision the remote does not have
DepRecords ==
    { [form |-> "git", URL |-> UrlA, Revision |-> C1],
      [form |-> "git", URL |-> UrlB, Revision |-> GoneRev],
      [form |-> "go", ImportPath |-> ImportA, Revision |-> C2],
      [form |-> "http", URLs |-> <<CandUnparsed, CandNoHost, CandArchive>>] }

\* the lists of at most n records
RecordLists(n) == UNION {[1..k -> DepRecords] : k \in 0..n}

\* ------------------------------------------------------------------------
\* CommitLog on a graph
\* ------------------------------------------------------------------------
\* the commits `git log from..to` lists, newest first: those reachable
\* from c that are not reachable from the excluded revision
RECURSIVE LogFrom(_, _, _)
LogFrom(g, excluded, c) ==
    IF c = Nil \/ c \in excluded THEN <<>>
    ELSE <<c>> \o LogFrom(g, excluded, g.parent[c])

LogRange(g, fromCommit, toCommit) ==
    LogFrom(g, AncestorsOf(g, ResolveRev(g, fromCommit)), ResolveRev(g, toCommit))

\* ------------------------------------------------------------------------
\* CommitLog's output and parseChangelog
\* ------------------------------------------------------------------------
\* the bytes 0x00 and 0x0A, each one character of a string
NUL == "\\0"
LF == "\\n"
CR == "\\r"

\* strings.Index: the first position sep occurs at in s, 0 when it does not
Index(s, sep) ==
    LET hits == {i \in 1..(Len(s) - Len(sep) + 1) : SubSeq(s, i, i + Len(sep) - 1) = sep}
    IN  IF hits = {} THEN 0 ELSE CHOOSE i \in hits : \A j \in hits : i <= j

\* strings.SplitN(s, sep, n) for n > 0: at most n pieces, the last one the
\* unsplit rest
RECURSIVE SplitN(_, _, _)
SplitN(s, sep, n) ==
    LET i == Index(s, sep)
    IN  IF n = 1 \/ i = 0 THEN <<s>>
        ELSE <<SubSeq(s, 1, i - 1)>> \o SplitN(SubSeq(s, i + Len(sep), Len(s)), sep, n - 1)

\* strings.Split(s, sep)
RECURSIVE Split(_, _)
Split(s, sep) ==
    LET i == Index(s, sep)
    IN  IF i = 0 THEN <<s>>
        ELSE <<SubSeq(s, 1, i - 1)>> \o Split(SubSeq(s, i + Len(sep), Len(s)), sep)

\* bufio.Scanner with the default split function ScanLines: the lines of
\* the stream without their end-of-line marker (LF, with a CR before it
\* dropped); a last line without LF is a line, nothing after a final LF is not
RECURSIVE ScanLines(_)
ScanLines(rd) ==
    LET i == Index(rd, <<LF>>)
    IN  IF rd = <<>> THEN <<>>
        ELSE IF i = 0 THEN <<TrimSuffix(rd, <<CR>>)>>
        ELSE <<TrimSuffix(SubSeq(rd, 1, i - 1), <<CR>>)>>
                 \o ScanLines(SubSeq(rd, i + 1, Len(rd)))

Digits == <<"0", "1", "2", "3", "4", "5", "6", "7", "8", "9">>
IsDigit(ch) == \E d \in 1..10 : Digits[d] = ch
DigitValue(ch) == (CHOOSE d \in 1..10 : Digits[d] = ch) - 1

\* the value of a string of decimal digits
RECURSIVE DecimalValue(_)
DecimalValue(s) ==
    IF s = <<>> THEN 0
    ELSE 10 * DecimalValue(SubSeq(s, 1, Len(s) - 1)) + DigitValue(s[Len(s)])

\* a string of digits without its leading zeros
RECURSIVE StripZeros(_)
StripZeros(s) ==
    IF s # <<>> /\ s[1] = "0" THEN StripZeros(Tail(s)) ELSE s

\* the digits of 2^63 - 1, the largest int64
MaxInt64Digits ==
    <<"9", "2", "2", "3", "3", "7", "2", "0", "3", "6", "8", "5", "4", "7", "7",
      "5", "8", "0", "7">>

\* the number a string of digits writes is greater than that of another of
\* the same length
RECURSIVE DigitsGreater(_, _)
DigitsGreater(a, b) ==
    IF a = <<>> THEN FALSE
    ELSE IF a[1] # b[1] THEN DigitValue(a[1]) > DigitValue(b[1])
    ELSE DigitsGreater(Tail(a), Tail(b))

\* a string of digits writes a number beyond the 64-bit range (the one
\* negative number of 19 digits beyond 2^63 - 1 that fits is -2^63)
OutOfRange(digits, negative) ==
    LET d == StripZeros(digits)
        limit == IF negative
                 THEN [MaxInt64Digits EXCEPT ![19] = "8"]
                 ELSE MaxInt64Digits
    IN  Len(d) > 19 \/ (Len(d) = 19 /\ DigitsGreater(d, limit))

\* strconv.ParseInt(s, 10, 64): an optional sign and one or more decimal
\* digits, the value within the 64-bit range; (value, err)
ParseInt(s) ==
    LET signed == s # <<>> /\ s[1] \in {"+", "-"}
        negative == signed /\ s[1] = "-"
        digits == IF signed THEN Tail(s) ELSE s
    IN  IF digits = <<>> \/ \E j \in 1..Len(digits) : ~IsDigit(digits[j])
        THEN [v |-> 0, err |-> <<"ParseInt", "invalid syntax">>]
        ELSE IF OutOfRange(digits, negative)
        THEN [v |-> 0, err |-> <<"ParseInt", "value out of range">>]
        ELSE [v |-> IF negative THEN 0 - DecimalValue(digits) ELSE DecimalValue(digits),
              err |-> Nil]

\* the prefix "tag: " of a decorated tag
TagPrefix == <<"t", "a", "g", ":", " ">>
\* the separator ", " of the decorations
TagSeparator == <<",", " ">>

\* the Commit parseChangelog builds of the four parts of a line
Commit(parts, ts) ==
    [Hash |-> parts[1],
     Tags |-> IF parts[2] # <<>>
              THEN LET t == Split(parts[2], TagSeparator)
                   IN  [j \in 1..Len(t) |-> TrimPrefix(t[j], TagPrefix)]
              ELSE <<>>,
     Date |-> ts,
     Title |-> parts[4]]

\* the loop of parseChangelog over the scanned lines, cs the commits so far
RECURSIVE parseLines(_, _)
parseLines(lines, cs) ==
    IF lines = <<>> THEN [cs |-> cs, err |-> Nil]
    ELSE LET line == Head(lines)
             parts == SplitN(line, <<NUL>>, 4)
         IN  IF Len(parts) # 4
             THEN [cs |-> Nil, err |-> <<"is in a wrong format", line>>]
             ELSE LET ts == ParseInt(parts[3])
                  IN  IF ts.err # Nil
                      THEN [cs |-> Nil, err |-> ts.err]
                      ELSE parseLines(Tail(lines), Append(cs, Commit(parts, ts.v)))

\* parseChangelog with a slip: the tags keep their "tag: " prefix
parseChangelog_PrefixKept(rd) ==
    LET p == parseLines(ScanLines(rd), <<>>)
    IN  [cs |-> [j \in 1..Len(p.cs) |->
                    [p.cs[j] EXCEPT !.Tags =
                        [k \in 1..Len(p.cs[j].Tags) |-> TagPrefix \o p.cs[j].Tags[k]]]],
         err |-> p.err]

\* parseChangelog: (commits, err)
parseChangelog(rd) == parseLines(ScanLines(rd), <<>>)

\* strconv's decimal text of a natural number, as git prints %ct
RECURSIVE FormatInt(_)
FormatInt(n) ==
    IF n < 10 THEN <<Digits[n + 1]>>
    ELSE FormatInt(n \div 10) \o <<Digits[(n % 10) + 1]>>

\* %D with --decorate=short --decorate-refs=refs/tags: "tag: <name>" for
\* each tag of the commit, joined by ", "
RECURSIVE FormatTags(_)
FormatTags(tags) ==
    IF tags = <<>> THEN <<>>
    ELSE IF Len(tags) = 1 THEN TagPrefix \o tags[1]
    ELSE TagPrefix \o tags[1] \o TagSeparator \o FormatTags(Tail(tags))

\* --pretty=format:%H%x00%D%x00%ct%x00%s for one commit
FormatCommit(c) ==
    c.Hash \o <<NUL>> \o FormatTags(c.Tags) \o <<NUL>> \o FormatInt(c.Date)
        \o <<NUL>> \o c.Title

\* the output of git log: format: puts a line feed between two commits
RECURSIVE JoinLines(_)
JoinLines(lines) ==
    IF lines = <<>> THEN <<>>
    ELSE IF Len(lines) = 1 THEN lines[1]
    ELSE lines[1] \o <<LF>> \o JoinLines(Tail(lines))

\* the commits git log is made to list
TagV1 == <<"v", "1">>
TagV2 == <<"v", "2">>
LogCommits ==
    { [Hash |-> h, Tags |-> t, Date |-> d, Title |-> s] :
        h \in {C1, C2},
        t \in {<<>>, <<TagV1>>, <<TagV1, TagV2>>},
        d \in {0, 42},
        s \in {<<"t">>, TagPrefix \o <<"t">>} }

\* lines no `git log` of this format prints for a commit: one with three
\* fields, one with a fifth field, and two whose %ct is not a number
BadLines ==
    { C1 \o <<NUL>> \o <<NUL>> \o <<"4", "2">>,
      C1 \o <<NUL>> \o <<NUL>> \o <<"4", "2">> \o <<NUL>> \o <<"t">> \o <<NUL>> \o <<"u">>,
      C1 \o <<NUL>> \o <<NUL>> \o <<"4", "x">> \o <<NUL>> \o <<"t">>,
      C1 \o <<NUL>> \o <<NUL>> \o <<NUL>> \o <<"t">> }

\* a line of the stream, and the commit it was printed for (Nil for none)
LogEntries ==
    {[commit |-> c, line |-> FormatCommit(c)] : c \in LogCommits}
        \cup {[commit |-> Nil, line |-> l] : l \in BadLines}

\* the streams of at most n lines, each with the entries it was made of
LogStreams(n) ==
    { [entries |-> es, rd |-> JoinLines([j \in 1..Len(es) |-> es[j].line])] :
        es \in UNION {[1..k -> LogEntries] : k \in 0..n} }

\* ------------------------------------------------------------------------
\* State
\* ------------------------------------------------------------------------
\* A pipeline is a call of NewCommits followed by writeToFile. Main's
\* sequential loop runs one at a time; mainPc is its position while it does.
\* The worker goroutines run the same closure and hold no state between two
\* items, so the pool is described by the number of workers waiting at the
\* receive, the WaitGroup counter, and, per record, the position of the
\* pipeline a worker runs for it or how that pipeline ended (run).
VARIABLES
    maxConcurrency, \* the -concurrency flag
    r,              \* the dependency records loadRepos returned
    mainPc,         \* main: "loop", a pipeline stage, "wait" or "done"
    seqI,           \* the sequential loop: the next position in SeqOrder
    run,            \* the pool's pipeline of each record
    idle,           \* workers blocked in `for gr := range gitRepos`
    wg,             \* the WaitGroup counter
    prodPc,         \* the producer goroutine: "off", "run" or "closed"
    prodI,          \* position of the producer in its three loops
    prodCoord,      \* the coordinate the producer resolved and is sending
    closed,         \* gitRepos has been closed
    populated,      \* per mirror directory: a clone has filled it
    writes,         \* per record: calls of writeToFile with its Changelog
    call,           \* a function called on its own: its name and arguments
    ret             \* and what it returned, Nil before it has

vars == <<maxConcurrency, r, mainPc, seqI, run, idle, wg, prodPc, prodI,
          prodCoord, closed, populated, writes, call, ret>>

\* the variables of the program run, and those of a function called alone
runVars == <<maxConcurrency, r, mainPc, seqI, run, idle, wg, prodPc, prodI,
             prodCoord, closed, populated, writes>>
callVars == <<call, ret>>

\* the positions inside NewCommits and writeToFile: the git subprocess, or
\* the file write, that the pipeline is waiting for
SyncStages == {"clone", "pull"}
ReadStages == {"check", "log"}
GitStages == SyncStages \cup ReadStages
PipelineStages == GitStages \cup {"write"}

\* how a pipeline ends
Failures == {"resolveFailed", "syncFailed", "checkFailed", "logFailed", "writeFailed"}
Outcomes == Failures \cup {"reported"}

\* the indices of r whose record has the given form, in list order
IndicesOf(form) ==
    SelectSeq([i \in 1..Len(r) |-> i], LAMBDA i : r[i].form = form)

\* main's sequential loop ranges over the records that carry the Revision
\* and URL it reads
SeqOrder == IndicesOf("git")

\* the producer ranges over r.Go, then r.HTTP, then r.Git
ProducerOrder == IndicesOf("go") \o IndicesOf("http") \o IndicesOf("git")

\* the coordinate a record resolves to when its resolution succeeds
CoordOf ==
    [d \in DepRecords |->
        CASE d.form = "git" -> gitPackageInfo(d.URL, d.Revision)
          [] d.form = "go" -> GoToGit(d, TRUE)
          [] d.form = "http" -> HTTPToGit(d.URLs)]

Coord(i) == CoordOf[r[i]]

\* NewGitRepo: the GitRepo NewCommits makes of a coordinate, ensureCacheDir
\* having set its Dir
GitRepoOf ==
    [d \in DepRecords |->
        [Revision |-> CoordOf[d].Revision, URL |-> CoordOf[d].URL,
         Dir |-> ensureCacheDir(CoordOf[d].URL)]]

NewGitRepo(i) == GitRepoOf[r[i]]

\* a pipeline is <<k, i>>: who runs it ("seq": main's loop, "pool": a
\* worker) and the record it is for
Pipelines == {"seq", "pool"} \X (1..Len(r))

\* the record main's loop is running the pipeline of, 0 when it runs none
SeqCur == IF mainPc \in PipelineStages THEN SeqOrder[seqI - 1] ELSE 0

\* the position of pipeline <<k, i>>
Stage(k, i) ==
    IF k = "pool" THEN run[i]
    ELSE IF SeqCur = i THEN mainPc
    ELSE "pending"

\* the pipelines that are under way
InFlight == {p \in Pipelines : Stage(p[1], p[2]) \in PipelineStages}

\* the history a mirror holds once it is synced
MirrorGraph == RemoteGraph

\* what git reads in a directory that another process is rewriting
BrokenGraph == [parent |-> <<>>, head |-> Nil]

\* a pipeline other than p runs clone or pull in directory d
SyncRunsBeside(p, d) ==
    \E o \in InFlight \ {p} :
        Stage(o[1], o[2]) \in SyncStages /\ NewGitRepo(o[2]).Dir = d

\* isDirEmpty as it can come out for directory d: a directory another
\* pipeline is cloning into may or may not have entries yet
isDirEmpty(d) ==
    IF populated[d] THEN {FALSE}
    ELSE IF \E o \in InFlight : Stage(o[1], o[2]) = "clone" /\ NewGitRepo(o[2]).Dir = d
    THEN {TRUE, FALSE}
    ELSE {TRUE}

Init ==
    /\ maxConcurrency \in 0..MaxWorkers
    /\ r \in RecordLists(MaxDeps)
    /\ mainPc = "loop"
    /\ seqI = 1
    /\ run = [i \in 1..Len(r) |-> "pending"]
    /\ idle = 0
    /\ wg = 0
    /\ prodPc = "off"
    /\ prodI = 1
    /\ prodCoord = Nil
    /\ closed = FALSE
    /\ populated = [d \in Dirs |-> FALSE]
    /\ writes = [i \in 1..Len(r) |-> 0]
    /\ call = Nil
    /\ ret = Nil

\* the process runs: main has not returned and no goroutine has panicked
Alive ==
    /\ mainPc \notin {"done", "panic"}
    /\ \A i \in 1..Len(r) : run[i] # "panic"

\* ------------------------------------------------------------------------
\* The pipeline: NewCommits followed by writeToFile
\* ------------------------------------------------------------------------
\* pipeline <<k, i>> moves to position st and its goroutine with it: st is
\* a stage of the pipeline, or "panic"
MoveTo(k, i, st) ==
    /\ IF k = "seq"
       THEN mainPc' = st /\ UNCHANGED run
       ELSE run' = [run EXCEPT ![i] = st] /\ UNCHANGED mainPc
    /\ UNCHANGED idle

\* pipeline <<k, i>> ends and its goroutine is back at the head of its loop
\* (`continue`, or the end of the loop body): the sequential loop's next
\* iteration, or the worker's next receive
EndWith(k, i, how) ==
    IF k = "seq"
    THEN mainPc' = "loop" /\ UNCHANGED <<run, idle>>
    ELSE run' = [run EXCEPT ![i] = how] /\ idle' = idle + 1 /\ UNCHANGED mainPc

\* updateCache with a slip: it clones whatever the directory holds
updateCache_AlwaysClone(isEmpty) == "clone"

\* NewCommits(gr.Revision, gr.URL) up to the start of git clone or git pull:
\* NewGitRepo, ensureCacheDir and updateCache's choice between the two
updateCache(isEmpty) == IF isEmpty THEN "clone" ELSE "pull"

\* git clone or git pull returns; on success CheckUpdate's merge-base starts
SyncEnd(k, i) ==
    /\ Alive
    /\ Stage(k, i) \in SyncStages
    /\ \E ok \in BOOLEAN :
         IF ok
         THEN /\ Stage(k, i) = "clone" \/ populated[NewGitRepo(i).Dir]
              /\ populated' = [populated EXCEPT ![NewGitRepo(i).Dir] = TRUE]
              /\ MoveTo(k, i, "check")
         ELSE /\ EndWith(k, i, "syncFailed")
              /\ UNCHANGED populated
    /\ UNCHANGED <<callVars, maxConcurrency, r, seqI, wg, prodPc, prodI, prodCoord, closed,
                   writes>>

\* NewCommits with a slip: CheckUpdate's result is not looked at
AfterCheckUpdate_Unchecked(p) == "log"

\* what NewCommits does with CheckUpdate's result p: an error ends the
\* pipeline, hasUpdate starts git log, and otherwise NewCommits returns
\* (nil, nil), the caller passes the nil Changelog to writeToFile, and
\* cl.Repo.Dir panics
AfterCheckUpdate(p) ==
    IF p.err # Nil THEN "checkFailed"
    ELSE IF ~p.hasUpdate THEN "panic"
    ELSE "log"

\* merge-base returns
CheckEnd(k, i) ==
    /\ Alive
    /\ Stage(k, i) = "check"
    /\ \E g \in {MirrorGraph} \cup
                (IF SyncRunsBeside(<<k, i>>, NewGitRepo(i).Dir)
                 THEN {BrokenGraph} ELSE {}) :
         LET next == AfterCheckUpdate(CheckUpdate(g, NewGitRepo(i).Revision, HEAD))
         IN  IF next = "checkFailed"
             THEN EndWith(k, i, next)
             ELSE MoveTo(k, i, next)
    /\ UNCHANGED <<callVars, maxConcurrency, r, seqI, wg, prodPc, prodI, prodCoord, closed,
                   populated, writes>>

\* git log returns and its output is parsed; on success the Changelog is
\* built and writeToFile is called with it
LogEnd(k, i) ==
    /\ Alive
    /\ Stage(k, i) = "log"
    /\ \E ok \in BOOLEAN :
         IF ok
         THEN /\ MoveTo(k, i, "write")
              /\ writes' = [writes EXCEPT ![i] = @ + 1]
         ELSE /\ EndWith(k, i, "logFailed")
              /\ UNCHANGED writes
    /\ UNCHANGED <<callVars, maxConcurrency, r, seqI, wg, prodPc, prodI, prodCoord, closed,
                   populated>>

\* the file writeToFile creates for record i:
\* filepath.Join(cl.Repo.Dir, "report.md")
ReportFile(i) == NewGitRepo(i).Dir \o <<"report.md">>

\* writeToFile returns
WriteEnd(k, i) ==
    /\ Alive
    /\ Stage(k, i) = "write"
    /\ \E ok \in BOOLEAN : EndWith(k, i, IF ok THEN "reported" ELSE "writeFailed")
    /\ UNCHANGED <<callVars, maxConcurrency, r, seqI, wg, prodPc, prodI, prodCoord, closed,
                   populated, writes>>

\* the Changelog NewCommits returns for record i
Changelog(i) ==
    [Repo |-> NewGitRepo(i),
     Log |-> LogRange(MirrorGraph, NewGitRepo(i).Revision, HEAD)]

\* ------------------------------------------------------------------------
\* main: the sequential loop, then the producer and the worker pool
\* ------------------------------------------------------------------------
\* one iteration of `for _, gr := range r` starts: NewCommits is called
SeqStart ==
    /\ Alive
    /\ mainPc = "loop"
    /\ seqI <= Len(SeqOrder)
    /\ \E isEmpty \in isDirEmpty(NewGitRepo(SeqOrder[seqI]).Dir) :
           mainPc' = updateCache(isEmpty)
    /\ seqI' = seqI + 1
    /\ UNCHANGED <<callVars, maxConcurrency, r, run, idle, wg, prodPc, prodI, prodCoord,
                   closed, populated, writes>>

\* the workers `for worker := 0; worker < maxConcurrency; worker++` starts
WorkerCount == IF maxConcurrency > 0 THEN maxConcurrency ELSE 0

\* the loop is over: main makes the channel, starts the producer goroutine,
\* adds the workers to the WaitGroup and starts them, and calls wg.Wait
StartPool ==
    /\ Alive
    /\ mainPc = "loop"
    /\ seqI > Len(SeqOrder)
    /\ mainPc' = "wait"
    /\ idle' = WorkerCount
    /\ wg' = WorkerCount
    /\ prodPc' = "run"
    /\ UNCHANGED <<callVars, maxConcurrency, r, seqI, run, prodI, prodCoord, closed,
                   populated, writes>>

\* the producer's position names a record of the given form
ProducerAt(form) ==
    /\ Alive
    /\ prodPc = "run"
    /\ prodI <= Len(ProducerOrder)
    /\ r[ProducerOrder[prodI]].form = form

\* the producer resolved (or failed to resolve) its record to the coordinate
\* gr: a failure is logged and the loop continues with the next record
Resolved(gr) ==
    /\ IF gr = Nil
       THEN /\ run' = [run EXCEPT ![ProducerOrder[prodI]] = "resolveFailed"]
            /\ prodI' = prodI + 1
            /\ UNCHANGED prodCoord
       ELSE /\ prodCoord' = gr
            /\ UNCHANGED <<prodI, run>>
    /\ UNCHANGED <<callVars, maxConcurrency, r, mainPc, seqI, idle, wg, prodPc, closed,
                   populated, writes>>

\* `for _, g := range r.Go`: g.GoToGit()
ResolveGo ==
    /\ ProducerAt("go")
    /\ prodCoord = Nil
    /\ \E netOk \in BOOLEAN : Resolved(GoToGit(r[ProducerOrder[prodI]], netOk))

\* `for _, h := range r.HTTP`: h.HTTPToGit()
ResolveHTTP ==
    /\ ProducerAt("http")
    /\ prodCoord = Nil
    /\ Resolved(HTTPToGit(r[ProducerOrder[prodI]].URLs))

\* the coordinate the producer's send statement offers, Nil when it is not
\* at a send
Offered ==
    IF ~(prodPc = "run" /\ prodI <= Len(ProducerOrder)) THEN Nil
    ELSE IF r[ProducerOrder[prodI]].form = "git" THEN Coord(ProducerOrder[prodI])
    ELSE prodCoord

\* the rendezvous with a slip: the producer stays at the record it sent and
\* offers it again
Receive_Duplicate ==
    /\ Alive
    /\ idle > 0
    /\ Offered # Nil
    /\ \E isEmpty \in isDirEmpty(ensureCacheDir(Offered.URL)) :
           run' = [run EXCEPT ![ProducerOrder[prodI]] = updateCache(isEmpty)]
    /\ idle' = idle - 1
    /\ UNCHANGED <<callVars, maxConcurrency, r, mainPc, seqI, wg, prodPc, prodI, prodCoord,
                   closed, populated, writes>>

\* `gitRepos <- gr` meets a worker's receive in `for gr := range gitRepos`:
\* the channel is unbuffered, so send and receive are one step; the worker
\* goes on into NewCommits
Receive ==
    /\ Alive
    /\ idle > 0
    /\ Offered # Nil
    /\ \E isEmpty \in isDirEmpty(ensureCacheDir(Offered.URL)) :
           run' = [run EXCEPT ![ProducerOrder[prodI]] = updateCache(isEmpty)]
    /\ idle' = idle - 1
    /\ prodI' = prodI + 1
    /\ prodCoord' = Nil
    /\ UNCHANGED <<callVars, maxConcurrency, r, mainPc, seqI, wg, prodPc, closed, populated,
                   writes>>

\* the producer with a slip: it returns without close(gitRepos)
ProducerClose_Forgotten ==
    /\ Alive
    /\ prodPc = "run"
    /\ prodI > Len(ProducerOrder)
    /\ prodPc' = "closed"
    /\ UNCHANGED <<callVars, maxConcurrency, r, mainPc, seqI, run, idle, wg, prodI,
                   prodCoord, closed, populated, writes>>

\* close(gitRepos), after the last loop of the producer
ProducerClose ==
    /\ Alive
    /\ prodPc = "run"
    /\ prodI > Len(ProducerOrder)
    /\ prodPc' = "closed"
    /\ closed' = TRUE
    /\ UNCHANGED <<callVars, maxConcurrency, r, mainPc, seqI, run, idle, wg, prodI,
                   prodCoord, populated, writes>>

\* a worker's range loop ends on the closed channel; its deferred wg.Done runs
WorkerExit ==
    /\ Alive
    /\ idle > 0
    /\ closed
    /\ idle' = idle - 1
    /\ wg' = wg - 1
    /\ UNCHANGED <<callVars, maxConcurrency, r, mainPc, seqI, run, prodPc, prodI, prodCoord,
                   closed, populated, writes>>

\* wg.Wait returns: "Have finished all checks." is logged and main returns,
\* which ends the process and every goroutine still running
WaitReturn ==
    /\ Alive
    /\ mainPc = "wait"
    /\ wg = 0
    /\ mainPc' = "done"
    /\ UNCHANGED <<callVars, maxConcurrency, r, seqI, run, idle, wg, prodPc, prodI,
                   prodCoord, closed, populated, writes>>

Next ==
    \/ SeqStart
    \/ StartPool
    \/ ResolveGo
    \/ ResolveHTTP
    \/ Receive
    \/ ProducerClose
    \/ WorkerExit
    \/ WaitReturn
    \/ \E p \in Pipelines : SyncEnd(p[1], p[2])
    \/ \E p \in Pipelines : CheckEnd(p[1], p[2])
    \/ \E p \in Pipelines : LogEnd(p[1], p[2])
    \/ \E p \in Pipelines : WriteEnd(p[1], p[2])

Spec == Init /\ [][Next]_vars

\* every step that can be taken is eventually taken: goroutines are
\* scheduled and every subprocess call returns
FairSpec == Spec /\ WF_vars(Next)

\* ------------------------------------------------------------------------
\* CheckUpdate called on its own, on every commit graph over Commits
\* ------------------------------------------------------------------------
\* the commits in the order they were made: a commit's parent is older
CommitOrder == <<C0, C1, C2, CX>>

\* every history of the four commits in which each has at most one parent,
\* with any of them as the head
Graphs ==
    { [parent |-> pf, head |-> h] :
        pf \in { f \in [Commits -> Commits \cup {Nil}] :
                   \A j \in 1..Len(CommitOrder) :
                       f[CommitOrder[j]] \in
                           {Nil} \cup {CommitOrder[k] : k \in 1..(j - 1)} },
        h \in Commits }

\* the program is not running while a function is called on its own
NotRunning ==
    /\ maxConcurrency = 0
    /\ r = <<>>
    /\ mainPc = "done"
    /\ seqI = 1
    /\ run = <<>>
    /\ idle = 0
    /\ wg = 0
    /\ prodPc = "off"
    /\ prodI = 1
    /\ prodCoord = Nil
    /\ closed = FALSE
    /\ populated = [d \in Dirs |-> FALSE]
    /\ writes = <<>>

InitCheckUpdate ==
    /\ NotRunning
    /\ call \in { [fn |-> "CheckUpdate", g |-> g, fromCommit |-> f] :
                    g \in Graphs, f \in Revisions }
    /\ ret = Nil

\* r.CheckUpdate(fromCommit, "HEAD") returns
CallCheckUpdate ==
    /\ call # Nil
    /\ call.fn = "CheckUpdate"
    /\ ret = Nil
    /\ ret' = CheckUpdate(call.g, call.fromCommit, HEAD)
    /\ UNCHANGED <<runVars, call>>

NextCheckUpdate == CallCheckUpdate

SpecCheckUpdate == InitCheckUpdate /\ [][NextCheckUpdate]_vars

\* ------------------------------------------------------------------------
\* HTTPToGit called on its own, on every list of candidate URLs
\* ------------------------------------------------------------------------
\* fmt.Errorf("no valid url")
NoValidURL == <<"no valid url">>

InitHTTPToGit ==
    /\ NotRunning
    /\ call \in { [fn |-> "HTTPToGit", URLs |-> us] : us \in CandidateLists(MaxURLs) }
    /\ ret = Nil

\* h.HTTPToGit() returns (g, err)
CallHTTPToGit ==
    /\ call # Nil
    /\ call.fn = "HTTPToGit"
    /\ ret = Nil
    /\ LET g == HTTPToGit(call.URLs)
       IN  ret' = [g |-> g, err |-> IF g = Nil THEN NoValidURL ELSE Nil]
    /\ UNCHANGED <<runVars, call>>

NextHTTPToGit == CallHTTPToGit

SpecHTTPToGit == InitHTTPToGit /\ [][NextHTTPToGit]_vars

\* ------------------------------------------------------------------------
\* parseChangelog called on its own, on streams of log lines
\* ------------------------------------------------------------------------
InitParseChangelog ==
    /\ NotRunning
    /\ call \in { [fn |-> "parseChangelog", entries |-> st.entries, rd |-> st.rd] :
                    st \in LogStreams(MaxLines) }
    /\ ret = Nil

\* r.parseChangelog(rd) returns
CallParseChangelog ==
    /\ call # Nil
    /\ call.fn = "parseChangelog"
    /\ ret = Nil
    /\ ret' = parseChangelog(call.rd)
    /\ UNCHANGED <<runVars, call>>

NextParseChangelog == CallParseChangelog

SpecParseChangelog == InitParseChangelog /\ [][NextParseChangelog]_vars

\* ------------------------------------------------------------------------
\* ensureCacheDir called for two repositories, one after the other
\* ------------------------------------------------------------------------
\* remote URLs on github.com, by their paths
MirrorURLs ==
    { [Host |-> GithubHost, Path |-> path] :
        path \in { <<"/", "a", "/", "b">>,
                   <<"/", "a", "/", "b", ".", "g", "i", "t">>,
                   <<"/", "a", "/", "c">>,
                   <<"/", "a", "/", "b", "_", "c">>,
                   <<"/", "a", "_", "b", "/", "c">>,
                   <<"/", "a", "-", "b", "/", "c">> } }

\* the GitRepo values NewGitRepo builds before it calls ensureCacheDir
NewRepos ==
    { [Revision |-> rev, URL |-> u] : rev \in {C1, C2}, u \in MirrorURLs }

InitEnsureCacheDir ==
    /\ NotRunning
    /\ call \in { [fn |-> "ensureCacheDir", repos |-> <<a, b>>] : a, b \in NewRepos }
    /\ ret = Nil

\* r.ensureCacheDir() sets r.Dir, for the next of the two repositories
CallEnsureCacheDir ==
    /\ call # Nil
    /\ call.fn = "ensureCacheDir"
    /\ Len(ret) < Len(call.repos)
    /\ ret' = Append(ret, ensureCacheDir(call.repos[Len(ret) + 1].URL))
    /\ UNCHANGED <<runVars, call>>

NextEnsureCacheDir == CallEnsureCacheDir

SpecEnsureCacheDir == InitEnsureCacheDir /\ [][NextEnsureCacheDir]_vars

\* ------------------------------------------------------------------------
\* Properties
\* ------------------------------------------------------------------------
\* the pipelines under way that run clone or pull for the URL u
SyncsOn(u) ==
    {p \in InFlight : Stage(p[1], p[2]) \in SyncStages /\ NewGitRepo(p[2]).URL = u}

\* the pipelines under way that run merge-base or log in directory d
ReadsIn(d) ==
    {p \in InFlight : Stage(p[1], p[2]) \in ReadStages /\ NewGitRepo(p[2]).Dir = d}

\* the pipelines under way that run clone or pull in directory d
SyncsIn(d) ==
    {p \in InFlight : Stage(p[1], p[2]) \in SyncStages /\ NewGitRepo(p[2]).Dir = d}

\* C1: for every URL, at most one clone or pull runs on its mirror
\* directory at any time.
C1_OneSyncPerURL == \A u \in URLs : Cardinality(SyncsOn(u)) <= 1

\* C2: a merge-base or log on a mirror never runs while another pipeline
\* runs clone or pull on the same mirror directory.
C2_NoReadDuringSync ==
    \A d \in Dirs : \A p \in ReadsIn(d) : SyncsIn(d) \ {p} = {}

\* C3: at most maxConcurrency pipelines are in flight, and at most
\* maxConcurrency git subprocesses run, in every state.
C3_BoundedInFlight ==
    /\ Cardinality(InFlight) <= maxConcurrency
    /\ Cardinality({p \in InFlight : Stage(p[1], p[2]) \in GitStages}) <= maxConcurrency

\* the run has logged "Have finished all checks."
Finished == mainPc = "done"

\* C4: when a dependency has failed at some stage, every other dependency
\* of the run has still been driven to its own outcome by the time the run
\* finishes.
C4_FailureIsolated ==
    Finished =>
        \A i \in 1..Len(r) :
            run[i] \in Failures => \A j \in 1..Len(r) \ {i} : run[j] \in Outcomes

\* C5: under fair scheduling, with every subprocess call returning, the run
\* eventually logs its terminal summary.
C5_RunTerminates == <>Finished

\* C5 witness: a run with workers has finished with one dependency failed
\* and another reported.
C5_Witness ==
    /\ Finished
    /\ maxConcurrency > 0
    /\ \E i, j \in 1..Len(r) : run[i] \in Failures /\ run[j] = "reported"

\* C6: whenever the run has logged its terminal summary, the queue is closed
\* and every dependency has been resolved, taken by a worker and finished,
\* whatever maxConcurrency is.
C6_DrainedAtSummary ==
    Finished => closed /\ \A i \in 1..Len(r) : run[i] \in Outcomes

\* C7: writeToFile is called exactly once for every dependency whose
\* pipeline succeeds: never twice, and once when the run has finished.
C7_ReportedExactlyOnce ==
    \A i \in 1..Len(r) :
        /\ writes[i] <= 1
        /\ (Finished /\ run[i] = "reported") => writes[i] = 1

\* the pinned revision of record i is the head of its mirror: there is no
\* update
NoUpdate(i) == ResolveRev(MirrorGraph, Coord(i).Revision) = MirrorGraph.head

\* C8: a dependency with no update gets no Changelog handed to writeToFile
\* and no report.
C8_NoReportWithoutUpdate ==
    \A i \in 1..Len(r) :
        NoUpdate(i) => writes[i] = 0 /\ run[i] \notin {"write", "reported", "writeFailed"}

\* from is an ancestor of the head of g and is not the head
StrictAncestorOfHead(g, from) ==
    from \in AncestorsOf(g, g.head) /\ from # g.head

\* C9: for every commit graph and every pinned revision in it, CheckUpdate
\* returns true exactly when pinned is an ancestor of head other than head;
\* it returns false without error when pinned is head.
C9_CheckUpdateStrict ==
    (ret # Nil /\ call.fromCommit \in Commits) =>
        /\ ret.hasUpdate <=> StrictAncestorOfHead(call.g, call.fromCommit)
        /\ call.fromCommit = call.g.head => ret = [hasUpdate |-> FALSE, err |-> Nil]

\* the pinned revision of record i names no commit of its mirror
Missing(i) == ResolveRev(MirrorGraph, Coord(i).Revision) = Nil

\* C10: for a pinned revision that the mirror does not have, CheckUpdate
\* returns an error, its result differs from "no update" (false, no error)
\* and from its result for every revision the mirror has, and the
\* dependency's pipelines neither reach git log nor writeToFile.
C10_MissingRevisionIsError ==
    \A i \in 1..Len(r) :
        Missing(i) =>
            LET p == CheckUpdate(MirrorGraph, Coord(i).Revision, HEAD)
            IN  /\ p.err # Nil
                /\ p # [hasUpdate |-> FALSE, err |-> Nil]
                /\ \A c \in Commits : CheckUpdate(MirrorGraph, c, HEAD) # p
                /\ writes[i] = 0
                /\ \A k \in {"seq", "pool"} :
                       Stage(k, i) \notin {"log", "write", "reported", "writeFailed", "panic"}

\* C10 witness: a worker's pipeline for a missing revision got through the
\* sync and ended at the update check.
C10_Witness == \E i \in 1..Len(r) : Missing(i) /\ run[i] = "checkFailed"

\* pipeline p starts its sync in this step: NewGitRepo calls updateCache
StartsSync(p) ==
    /\ Stage(p[1], p[2]) \notin SyncStages
    /\ Stage(p[1], p[2])' \in SyncStages

\* C11: once a clone of a mirror directory has succeeded, every acquire of
\* that directory that starts afterwards runs git pull and never git clone.
C11_NoReclone ==
    [][\A p \in Pipelines :
          (StartsSync(p) /\ populated[NewGitRepo(p[2]).Dir])
              => Stage(p[1], p[2])' = "pull"]_vars

\* C11 witness: with one worker, main's loop cloned a mirror and the
\* worker's later acquire of the same directory runs git pull.
C11_Witness ==
    /\ maxConcurrency = 1
    /\ \E i \in 1..Len(r) :
          /\ run[i] = "pull"
          /\ populated[NewGitRepo(i).Dir]
          /\ r[i].form = "git"

\* the text of a path given by its segments: "/" before each segment
RECURSIVE PathOf(_)
PathOf(segs) ==
    IF segs = <<>> THEN <<>>
    ELSE <<"/">> \o SegText(Head(segs)) \o PathOf(Tail(segs))

\* e is a codeload URL: host codeload.github.com and a path
\* /<owner>/<repo>/<format>/<revision>
IsCodeloadURL(e) ==
    e.parses /\ e.Host = CodeloadHost /\ Len(e.Segs) = 4

\* the coordinate a codeload URL names:
\* https://github.com/<owner>/<repo> at <revision>
CodeloadCoordinate(e) ==
    gitPackageInfo([Host |-> GithubHost, Path |-> PathOf(SubSeq(e.Segs, 1, 2))],
                   SegText(e.Segs[4]))

\* C12: an archive record whose candidate URL is a codeload URL
\* /<owner>/<repo>/<format>/<revision> resolves to
\* https://github.com/<owner>/<repo> at <revision>.
C12_CodeloadResolves ==
    (ret # Nil /\ Len(call.URLs) = 1 /\ IsCodeloadURL(call.URLs[1])) =>
        ret = [g |-> CodeloadCoordinate(call.URLs[1]), err |-> Nil]

\* candidate e has a registered extractor that matches it
Matches(e) ==
    e.parses /\ e.Host \in httpGitMapperHosts /\ githubRE(e.Segs) # Nil

\* C13: HTTPToGit returns the coordinate extracted from the first candidate
\* URL, in list order, that parses and that a registered extractor matches,
\* skipping the others; it returns an error exactly when no candidate
\* matches.
C13_FirstMatchWins ==
    ret # Nil =>
        LET us == call.URLs
            hits == {j \in 1..Len(us) : Matches(us[j])}
        IN  /\ (ret.err # Nil) <=> (hits = {})
            /\ hits = {} => ret.g = Nil
            /\ hits # {} =>
                  \E j \in hits :
                      /\ \A k \in hits : j <= k
                      /\ ret.g = githubMapper(us[j])

\* C13 witness: the call skipped a first URL that no extractor matches and
\* returned the coordinate of the second, while a third URL, matching too
\* and naming a different coordinate, came after it.
C13_Witness ==
    /\ ret # Nil
    /\ ret.err = Nil
    /\ Len(call.URLs) = 3
    /\ ~Matches(call.URLs[1])
    /\ Matches(call.URLs[2])
    /\ Matches(call.URLs[3])
    /\ githubMapper(call.URLs[2]) # githubMapper(call.URLs[3])
    /\ ret.g = githubMapper(call.URLs[2])

\* the number of NUL-separated fields of a line
FieldCount(line) == Cardinality({j \in 1..Len(line) : line[j] = NUL}) + 1

\* the k-th NUL-separated field of a line that has at least k fields
RECURSIVE Field(_, _)
Field(line, k) ==
    LET i == Index(line, <<NUL>>)
        first == IF i = 0 THEN line ELSE SubSeq(line, 1, i - 1)
    IN  IF k = 1 THEN first ELSE Field(SubSeq(line, i + 1, Len(line)), k - 1)

\* s is a decimal integer
IsDecimal(s) ==
    LET digits == IF s # <<>> /\ s[1] \in {"+", "-"} THEN Tail(s) ELSE s
    IN  digits # <<>> /\ \A j \in 1..Len(digits) : IsDigit(digits[j])

\* a record that does not have exactly four fields, or whose third field is
\* not a decimal integer
Malformed(line) ==
    FieldCount(line) # 4 \/ ~IsDecimal(Field(line, 3))

\* C14: if any record of the stream does not have exactly four
\* NUL-separated fields (fewer or more), or its third field is not a decimal
\* integer, parseChangelog returns an error and no commits at all.
C14_MalformedAborts ==
    (ret # Nil /\ \E j \in 1..Len(call.entries) : Malformed(call.entries[j].line)) =>
        ret.err # Nil /\ ret.cs = Nil

\* C15: for a stream of n records printed for n commits, parseChangelog
\* returns without error exactly those n commits in the order printed, each
\* with its hash, title, timestamp and tags (the "tag: " prefix stripped).
C15_WellFormedParsed ==
    (ret # Nil /\ \A j \in 1..Len(call.entries) : call.entries[j].commit # Nil) =>
        /\ ret.err = Nil
        /\ ret.cs = [j \in 1..Len(call.entries) |-> call.entries[j].commit]

\* C15 witness: parseChangelog returned for a stream of two different
\* commits, the first with two tags and the second with none.
C15_Witness ==
    /\ ret # Nil
    /\ Len(call.entries) = 2
    /\ call.entries[1].commit # Nil
    /\ call.entries[2].commit # Nil
    /\ call.entries[1].commit.Hash # call.entries[2].commit.Hash
    /\ Len(call.entries[1].commit.Tags) = 2
    /\ call.entries[2].commit.Tags = <<>>
    /\ Len(ret.cs) = 2

\* the steps in pipeline order: from the stage that ended to the stage that
\* starts when it succeeded, or to the failure it ends the pipeline with
StageSteps ==
    {<<"pending", "resolveFailed">>, <<"pending", "clone">>, <<"pending", "pull">>,
     <<"clone", "check">>, <<"clone", "syncFailed">>,
     <<"pull", "check">>, <<"pull", "syncFailed">>,
     <<"check", "log">>, <<"check", "checkFailed">>,
     <<"log", "write">>, <<"log", "logFailed">>,
     <<"write", "reported">>, <<"write", "writeFailed">>}

\* C16: every pipeline of a dependency goes through resolve, sync, detect,
\* extract and report in that order, a stage starting only when the one
\* before it succeeded: the sync starts only for a coordinate the resolution
\* produced, and extract (and report after it) only when detect returned an
\* update without error.
C16_StagesInOrder ==
    [][\A p \in Pipelines :
          LET s == Stage(p[1], p[2])
              t == Stage(p[1], p[2])'
          IN  s # t =>
                /\ \/ <<s, t>> \in StageSteps
                   \/ p[1] = "seq" /\ s \in PipelineStages /\ t = "pending"
                /\ (t \in SyncStages /\ p[1] = "pool") =>
                       /\ Offered # Nil
                       /\ ProducerOrder[prodI] = p[2]
                       /\ Offered = Coord(p[2])
                /\ t = "log" =>
                       CheckUpdate(MirrorGraph, NewGitRepo(p[2]).Revision, HEAD)
                           = [hasUpdate |-> TRUE, err |-> Nil]]_vars

\* C16 witness: a worker has taken a go record through every stage to its
\* report, and the update check has ended the pipeline of another record.
C16_Witness ==
    \E i, j \in 1..Len(r) :
        /\ r[i].form = "go"
        /\ run[i] = "reported"
        /\ run[j] = "checkFailed"

\* main's sequential loop has started the pipeline of record i
SeqAttempted(i) == \E j \in 1..(seqI - 1) : SeqOrder[j] = i

\* a worker has started the pipeline of record i
PoolAttempted(i) == run[i] \in PipelineStages \cup (Outcomes \ {"resolveFailed"})

\* C17: within one run no dependency record is run through the pipeline a
\* second time: each of its stages is attempted at most once, whether the
\* first attempt failed or not.
C17_SingleAttempt ==
    \A i \in 1..Len(r) : ~(SeqAttempted(i) /\ PoolAttempted(i))

\* C18: two acquires yield the same mirror directory exactly when their
\* remote URLs are equal, whatever their pinned revisions are.
C18_DirIffURL ==
    Len(ret) = 2 =>
        (ret[1] = ret[2] <=> call.repos[1].URL = call.repos[2].URL)

\* the state of the queue: the records the producer is past are those that
\* are no longer pending (each failed to resolve or was received), the
\* channel is closed exactly when the producer has run close, and a worker
\* has left its loop only on the closed channel
QueueInv ==
    /\ \A j \in 1..Len(ProducerOrder) :
           (j < prodI) <=> (run[ProducerOrder[j]] # "pending")
    /\ closed <=> (prodPc = "closed")
    /\ (mainPc \in {"wait", "done"} /\ wg < WorkerCount) => closed

\* the steps of the queue: a record is received only as the one the
\* producer is sending, by one worker, with the producer moving on; it is
\* never received a second time, nor after its resolution failed; the close
\* comes after the last send, and nothing is sent or closed after it
QueueStep ==
    /\ \A i \in 1..Len(r) :
           /\ (run[i] \notin SyncStages /\ run'[i] \in SyncStages) =>
                  /\ run[i] = "pending"
                  /\ ~closed
                  /\ Offered = Coord(i)
                  /\ ProducerOrder[prodI] = i
                  /\ prodI' = prodI + 1
                  /\ idle' = idle - 1
           /\ run[i] = "resolveFailed" => run'[i] = "resolveFailed"
    /\ closed => (closed' /\ prodI' = prodI /\ prodPc' = prodPc)
    /\ (~closed /\ closed') =>
           (prodI > Len(ProducerOrder) /\ prodPc = "run" /\ prodPc' = "closed")

\* C19: every coordinate the producer sends is received by exactly one
\* worker, none lost and none delivered twice; the producer closes the
\* channel once, only after its last send; and a dependency whose
\* resolution failed is never sent.
C19_QueueProtocol == []QueueInv /\ [][QueueStep]_vars

\* C19 witness: the producer has skipped a record that failed to resolve,
\* sent another that a worker received, and closed the channel, and a
\* worker has left its loop.
C19_Witness ==
    /\ closed
    /\ mainPc = "wait"
    /\ wg < WorkerCount
    /\ \E i, j \in 1..Len(r) : run[i] = "resolveFailed" /\ PoolAttempted(j)

\* C20: no two workers write the same report file at the same time, and a
\* report written for one dependency is never overwritten by the report of
\* another dependency of the run, two dependencies of one URL at different
\* revisions included.
C20_ReportsKept ==
    \A i, j \in 1..Len(r) :
        (i # j /\ ReportFile(i) = ReportFile(j)) =>
            /\ ~(run[i] = "write" /\ run[j] = "write")
            /\ ~(run[i] = "reported" /\ run[j] \in {"write", "reported"})

====
